---- MODULE Spec2Model ----
(***************************************************************************)
(* A model of rsrpp's parser module (src/src/parser/mod.rs): the rectangle *)
(* kernel (Coordinate), the layout tree (Page / Block / Line / Word), the  *)
(* two estimators (get_text_area, get_font_sizes), the block classifier    *)
(* (get_block_attr) and the driver parse_html.                             *)
(*                                                                         *)
(* Numbers.  The program computes in f32.  The model computes in exact     *)
(* integers; a quotient is kept as a record [num, den] and compared by     *)
(* cross-multiplication, following IEEE-754 for a zero denominator         *)
(* (x/0 is +inf, -inf or NaN).  Rounding, overflow and underflow of f32    *)
(* are outside the model.  Record coordinates are drawn from an even grid, *)
(* so the mean of two of them (the median of an even count) is an integer. *)
(***************************************************************************)
EXTENDS Integers, Sequences, FiniteSets, TLC

VARIABLES
    pc,            \* where the running call stands
    pages,         \* parse_html: the local `pages`
    cur_page,      \* parse_html: the local `_page` (<<>> when no page is open)
    cur_block,     \* parse_html: the local `_block` (<<>> when no block is open)
    font_size,     \* parse_html: the local `font_size`
    text_area,     \* parse_html: the local `text_area`
    fs_text_area,  \* get_font_sizes: its own local `text_area`
    cur,           \* the classification loop: blocks already visited
    log,           \* history: the <<page, block>> positions assigned so far
    result,        \* how parse_html ended: "none", "Ok" or "panic"
    failed_at,     \* the node kind or call whose unwrap() panicked
    args,          \* kernel / classifier call: the arguments
    ret            \* kernel / classifier call: the returned value

vars == <<pc, pages, cur_page, cur_block, font_size, text_area, fs_text_area,
          cur, log, result, failed_at, args, ret>>

(***************************************************************************)
(* Bounds of the model.                                                    *)
(***************************************************************************)
\* rectangle corners of the kernel specification range over 0..MaxCoord
MaxCoord == 2
\* a document has at most MaxPages pages
MaxPages == 2
\* a document has at most MaxDocBlocks blocks in total
MaxDocBlocks == 2
\* a document has at most MaxDocLines lines in total
MaxDocLines == 3
\* a block handed to the classifier alone has at most MaxBlockLines lines
MaxBlockLines == 2

(***************************************************************************)
(* f32 helpers.                                                            *)
(***************************************************************************)
\* f32::NAN, the value of sci_rs::stats::median over an empty collection.
\* It is only ever compared (every comparison with NaN is false).
NaN == -1000

Quot(n, d) == [num |-> n, den |-> d]

\* q > a/b for a quotient q and a constant a/b with b > 0 (IEEE-754: a
\* quotient n/0 is +inf when n > 0, -inf when n < 0, NaN when n = 0).
QuotGt(q, a, b) ==
    IF q.den > 0 THEN q.num * b > a * q.den
    ELSE IF q.den < 0 THEN q.num * b < a * q.den
    ELSE q.num > 0

f32_max(a, b) == IF a >= b THEN a ELSE b
f32_min(a, b) == IF a <= b THEN a ELSE b

(***************************************************************************)
(* Geometry kernel: Point and Coordinate.                                  *)
(***************************************************************************)
Point(x, y) == [x |-> x, y |-> y]

from_rect(x1, y1, x2, y2) ==
    [top_left     |-> Point(x1, y1),
     top_right    |-> Point(x2, y1),
     bottom_left  |-> Point(x1, y2),
     bottom_right |-> Point(x2, y2)]

from_object(x, y, w, h) ==
    [top_left     |-> Point(x, y),
     top_right    |-> Point(x + w, y),
     bottom_left  |-> Point(x, y + h),
     bottom_right |-> Point(x + w, y + h)]

width(self) == self.top_right.x - self.top_left.x

height(self) == self.bottom_left.y - self.top_left.y

\* a plausible slip: the boundary comparisons written without equality
is_intercept_closed(self, other) ==
    IF self.top_left.x > other.bottom_right.x \/ self.bottom_right.x < other.top_left.x
    THEN FALSE
    ELSE IF self.top_left.y > other.bottom_right.y \/ self.bottom_right.y < other.top_left.y
    THEN FALSE
    ELSE TRUE

is_intercept(self, other) ==
    IF self.top_left.x >= other.bottom_right.x \/ self.bottom_right.x <= other.top_left.x
    THEN FALSE
    ELSE IF self.top_left.y >= other.bottom_right.y \/ self.bottom_right.y <= other.top_left.y
    THEN FALSE
    ELSE TRUE

get_area(self) == width(self) * height(self)

intersection(self, other) ==
    LET x1 == f32_max(self.top_left.x, other.top_left.x)
        y1 == f32_max(self.top_left.y, other.top_left.y)
        x2 == f32_min(self.bottom_right.x, other.bottom_right.x)
        y2 == f32_min(self.bottom_right.y, other.bottom_right.y)
    IN  from_rect(x1, y1, x2, y2)

\* a plausible slip: the guard joined with "and" instead of "or"
iou_guard_and(self, other) ==
    LET dx == f32_min(self.bottom_right.x, other.bottom_right.x)
                - f32_max(self.top_left.x, other.top_left.x)
        dy == f32_min(self.bottom_right.y, other.bottom_right.y)
                - f32_max(self.top_left.y, other.top_left.y)
    IN  IF dx <= 0 /\ dy <= 0
        THEN Quot(0, 1)
        ELSE LET area1 == width(self) * height(self)
                 area2 == width(other) * height(other)
                 inter_area == dx * dy
             IN  Quot(inter_area, area1 + area2 - inter_area)

\* a plausible slip: the intersection is not subtracted from the union
iou_no_subtract(self, other) ==
    LET dx == f32_min(self.bottom_right.x, other.bottom_right.x)
                - f32_max(self.top_left.x, other.top_left.x)
        dy == f32_min(self.bottom_right.y, other.bottom_right.y)
                - f32_max(self.top_left.y, other.top_left.y)
    IN  IF dx <= 0 \/ dy <= 0
        THEN Quot(0, 1)
        ELSE LET area1 == width(self) * height(self)
                 area2 == width(other) * height(other)
                 inter_area == dx * dy
             IN  Quot(inter_area, area1 + area2)

iou(self, other) ==
    LET dx == f32_min(self.bottom_right.x, other.bottom_right.x)
                - f32_max(self.top_left.x, other.top_left.x)
        dy == f32_min(self.bottom_right.y, other.bottom_right.y)
                - f32_max(self.top_left.y, other.top_left.y)
    IN  IF dx <= 0 \/ dy <= 0
        THEN Quot(0, 1)
        ELSE LET area1 == width(self) * height(self)
                 area2 == width(other) * height(other)
                 inter_area == dx * dy
             IN  Quot(inter_area, area1 + area2 - inter_area)

(***************************************************************************)
(* Layout model.  A word's text plays no part in geometry, estimation or   *)
(* classification and is left out; a Word is its rectangle.                *)
(***************************************************************************)
Word(x, y, w, h) == [x |-> x, y |-> y, width |-> w, height |-> h]

Line_new(x, y, w, h) ==
    [words |-> <<>>, x |-> x, y |-> y, width |-> w, height |-> h]

add_word(self, x, y, w, h) ==
    [self EXCEPT !.words = Append(@, Word(x, y, w, h))]

\* a plausible slip: a block born with a classification
Block_new_text(x, y, w, h) ==
    [lines |-> <<>>, x |-> x, y |-> y, width |-> w, height |-> h, attr |-> "Text"]

Block_new(x, y, w, h) ==
    [lines |-> <<>>, x |-> x, y |-> y, width |-> w, height |-> h, attr |-> "Else"]

Page_new(w, h) == [blocks |-> <<>>, width |-> w, height |-> h]

\* the nested loops `for block in &self.blocks { for line in &block.lines {`
\* of the four extent methods: every line of the page, in iteration order
RECURSIVE FlatLines(_)
FlatLines(blocks) ==
    IF blocks = <<>> THEN <<>>
    ELSE Head(blocks).lines \o FlatLines(Tail(blocks))

Ascending(a, b) == a < b
Descending(a, b) == b < a

\* values.first().unwrap() panics on a page without lines
HasLines(self) == FlatLines(self.blocks) # <<>>

Page_top(self) ==
    LET ls == FlatLines(self.blocks)
        values == [i \in 1..Len(ls) |-> ls[i].y]
    IN  Head(SortSeq(values, Ascending))

\* a plausible slip: the line's height is not added
Page_bottom_no_height(self) ==
    LET ls == FlatLines(self.blocks)
        values == [i \in 1..Len(ls) |-> ls[i].y]
    IN  Head(SortSeq(values, Descending))

Page_bottom(self) ==
    LET ls == FlatLines(self.blocks)
        values == [i \in 1..Len(ls) |-> ls[i].y + ls[i].height]
    IN  Head(SortSeq(values, Descending))

Page_left(self) ==
    LET ls == FlatLines(self.blocks)
        values == [i \in 1..Len(ls) |-> ls[i].x]
    IN  Head(SortSeq(values, Ascending))

Page_right(self) ==
    LET ls == FlatLines(self.blocks)
        values == [i \in 1..Len(ls) |-> ls[i].x + ls[i].width]
    IN  Head(SortSeq(values, Descending))

(***************************************************************************)
(* sci_rs::stats::median (the .0 of its result): NaN for no value, the     *)
(* value itself for one, otherwise sort ascending and take the middle      *)
(* value (odd count) or the mean of the two middle values (even count).    *)
(***************************************************************************)
median(v) ==
    LET n == Len(v)
        s == SortSeq(v, Ascending)
    IN  IF n = 0 THEN NaN
        ELSE IF n = 1 THEN v[1]
        ELSE IF n % 2 = 1 THEN s[(n \div 2) + 1]
        ELSE (s[(n \div 2) + 1] + s[n \div 2]) \div 2

(***************************************************************************)
(* Estimators.                                                             *)
(***************************************************************************)
get_text_area(ps) ==
    LET left_values   == [i \in 1..Len(ps) |-> Page_left(ps[i])]
        right_values  == [i \in 1..Len(ps) |-> Page_right(ps[i])]
        top_values    == [i \in 1..Len(ps) |-> Page_top(ps[i])]
        bottom_values == [i \in 1..Len(ps) |-> Page_bottom(ps[i])]
        left   == median(left_values)
        right  == median(right_values)
        top    == median(top_values)
        bottom == median(bottom_values)
    IN  [top_left     |-> Point(left, top),
         top_right    |-> Point(right, top),
         bottom_left  |-> Point(left, bottom),
         bottom_right |-> Point(right, bottom)]

\* every line of the document, in the order of the three nested loops
RECURSIVE DocLines(_)
DocLines(ps) ==
    IF ps = <<>> THEN <<>>
    ELSE FlatLines(Head(ps).blocks) \o DocLines(Tail(ps))

\* the test of get_font_sizes' loop body for one line
LineQualifies(ta, line) ==
    LET line_coord == from_object(line.x, line.y, line.width, line.height)
        iou_       == iou(ta, line_coord)
        inter      == get_area(intersection(ta, line_coord))
        line_area  == get_area(line_coord)
    IN  QuotGt(iou_, 0, 1) /\ QuotGt(Quot(inter, line_area), 9, 10)

RECURSIVE PushQualifying(_, _)
PushQualifying(ta, ls) ==
    IF ls = <<>> THEN <<>>
    ELSE (IF LineQualifies(ta, Head(ls)) THEN <<Head(ls).height>> ELSE <<>>)
         \o PushQualifying(ta, Tail(ls))

\* a plausible slip: the membership test is left out
get_font_sizes_unfiltered(ps) ==
    LET ls == DocLines(ps) IN median([i \in 1..Len(ls) |-> ls[i].height])

get_font_sizes(ps) ==
    LET ta == get_text_area(ps)
        font_sizes == PushQualifying(ta, DocLines(ps))
    IN  median(font_sizes)

(***************************************************************************)
(* Block classifier.                                                       *)
(***************************************************************************)
RECURSIVE SumHeights(_)
SumHeights(ls) == IF ls = <<>> THEN 0 ELSE Head(ls).height + SumHeights(Tail(ls))

\* a > b on f32 where either side may be NaN; a is a quotient
GtF32(q, b) == b # NaN /\ QuotGt(q, b, 1)

\* a plausible slip: >= in the font-size comparison
get_block_attr_ge(block, fs, ta) ==
    LET num_lines == Len(block.lines)
        block_font_size == Quot(SumHeights(block.lines), num_lines)
        block_coord == from_object(block.x, block.y, block.width, block.height)
        iou_ == iou(ta, block_coord)
        inter == get_area(intersection(ta, block_coord))
        block_area == get_area(block_coord)
        is_in_text_area == QuotGt(iou_, 0, 1) /\ QuotGt(Quot(inter, block_area), 9, 10)
    IN  IF is_in_text_area /\ num_lines = 1
           /\ (GtF32(block_font_size, fs) \/ block_font_size.num = fs * block_font_size.den)
        THEN "Title"
        ELSE IF is_in_text_area /\ num_lines > 1 THEN "Text"
        ELSE "Else"

\* a plausible slip: a block already classified is left as it is
get_block_attr_keep(block, fs, ta) ==
    LET num_lines == Len(block.lines)
        block_font_size == Quot(SumHeights(block.lines), num_lines)
        block_coord == from_object(block.x, block.y, block.width, block.height)
        iou_ == iou(ta, block_coord)
        inter == get_area(intersection(ta, block_coord))
        block_area == get_area(block_coord)
        is_in_text_area == QuotGt(iou_, 0, 1) /\ QuotGt(Quot(inter, block_area), 9, 10)
    IN  IF block.attr # "Else" THEN "Else"
        ELSE IF is_in_text_area /\ num_lines = 1 /\ GtF32(block_font_size, fs)
        THEN "Title"
        ELSE IF is_in_text_area /\ num_lines > 1 THEN "Text"
        ELSE "Else"

get_block_attr(block, fs, ta) ==
    LET num_lines == Len(block.lines)
        block_font_size == Quot(SumHeights(block.lines), num_lines)
        block_coord == from_object(block.x, block.y, block.width, block.height)
        iou_ == iou(ta, block_coord)
        inter == get_area(intersection(ta, block_coord))
        block_area == get_area(block_coord)
        is_in_text_area == QuotGt(iou_, 0, 1) /\ QuotGt(Quot(inter, block_area), 9, 10)
    IN  IF is_in_text_area /\ num_lines = 1 /\ GtF32(block_font_size, fs)
        THEN "Title"
        ELSE IF is_in_text_area /\ num_lines > 1 THEN "Text"
        ELSE "Else"

(***************************************************************************)
(* parse_html, one action per loop iteration and per call.                 *)
(***************************************************************************)
\* the records the extractor can supply, as xmin / ymin / xmax / ymax
Box(x1, y1, x2, y2) == [xmin |-> x1, ymin |-> y1, xmax |-> x2, ymax |-> y2]

\* a line record: its box and its word records
LineRec(b, ws) == [box |-> b, words |-> ws]

LineRecs ==
    { LineRec(Box(0, 0, 4, 2), <<Box(0, 0, 2, 2), Box(2, 0, 4, 2)>>),
      LineRec(Box(0, 0, 4, 4), <<>>),
      LineRec(Box(6, 6, 8, 8), <<Box(6, 6, 8, 8)>>) }

BlockBoxes == {Box(0, 0, 4, 4), Box(6, 6, 8, 8)}

PageSizes == {[width |-> 8, height |-> 8]}

RECURSIVE NumBlocks(_)
NumBlocks(ps) == IF ps = <<>> THEN 0 ELSE Len(Head(ps).blocks) + NumBlocks(Tail(ps))

\* blocks and lines read so far, the open page and the open block included
BlocksRead ==
    NumBlocks(pages) + NumBlocks(cur_page) + Len(cur_block)

LinesRead ==
    Len(DocLines(pages)) + Len(DocLines(cur_page)) + Len(FlatLines(cur_block))

\* the positions the classification loop visits, in its order
RECURSIVE BlockIdxsFrom(_, _)
BlockIdxsFrom(ps, i) ==
    IF i > Len(ps) THEN <<>>
    ELSE [b \in 1..Len(ps[i].blocks) |-> <<i, b>>] \o BlockIdxsFrom(ps, i + 1)

BlockIdxs(ps) == BlockIdxsFrom(ps, 1)

\* an unwrap() on None or Err: the thread panics, the stack unwinds, every
\* local of parse_html is dropped and nothing is returned
Panic(where) ==
    /\ pc' = "panicked"
    /\ result' = "panic"
    /\ failed_at' = where
    /\ pages' = <<>>
    /\ cur_page' = <<>>
    /\ cur_block' = <<>>
    /\ UNCHANGED <<font_size, text_area, fs_text_area, cur, log, args, ret>>

\* `for page in _pages`: width and height parse, Page::new
BeginPage ==
    /\ pc = "build"
    /\ cur_page = <<>>
    /\ Len(pages) < MaxPages
    /\ \E sz \in PageSizes : cur_page' = <<Page_new(sz.width, sz.height)>>
    /\ UNCHANGED <<pc, pages, cur_block, font_size, text_area, fs_text_area,
                   cur, log, result, failed_at, args, ret>>

\* `for block in _blocks`: the four attributes parse, Block::new
BeginBlock ==
    /\ pc = "build"
    /\ cur_page # <<>>
    /\ cur_block = <<>>
    /\ BlocksRead < MaxDocBlocks
    /\ \E b \in BlockBoxes :
          cur_block' = <<Block_new(b.xmin, b.ymin, b.xmax - b.xmin, b.ymax - b.ymin)>>
    /\ UNCHANGED <<pc, pages, cur_page, font_size, text_area, fs_text_area,
                   cur, log, result, failed_at, args, ret>>

RECURSIVE AddWords(_, _)
AddWords(line, ws) ==
    IF ws = <<>> THEN line
    ELSE LET w == Head(ws)
         IN  AddWords(add_word(line, w.xmin, w.ymin, w.xmax - w.xmin, w.ymax - w.ymin),
                      Tail(ws))

\* one iteration of `for line in _lines`, its word loop included
ParseLine ==
    /\ pc = "build"
    /\ cur_block # <<>>
    /\ LinesRead < MaxDocLines
    /\ \E rec \in LineRecs :
          LET l == rec.box
              line_ == Line_new(l.xmin, l.ymin, l.xmax - l.xmin, l.ymax - l.ymin)
          IN  cur_block' = <<[cur_block[1] EXCEPT
                                !.lines = Append(@, AddWords(line_, rec.words))]>>
    /\ UNCHANGED <<pc, pages, cur_page, font_size, text_area, fs_text_area,
                   cur, log, result, failed_at, args, ret>>

\* `_page.blocks.push(_block)`
EndBlock ==
    /\ pc = "build"
    /\ cur_block # <<>>
    /\ cur_page' = <<[cur_page[1] EXCEPT !.blocks = Append(@, cur_block[1])]>>
    /\ cur_block' = <<>>
    /\ UNCHANGED <<pc, pages, font_size, text_area, fs_text_area,
                   cur, log, result, failed_at, args, ret>>

\* `pages.push(_page)`
EndPage ==
    /\ pc = "build"
    /\ cur_page # <<>>
    /\ cur_block = <<>>
    /\ pages' = Append(pages, cur_page[1])
    /\ cur_page' = <<>>
    /\ UNCHANGED <<pc, cur_block, font_size, text_area, fs_text_area,
                   cur, log, result, failed_at, args, ret>>

\* the page iterator is exhausted
EndInput ==
    /\ pc = "build"
    /\ cur_page = <<>>
    /\ pc' = "font"
    /\ UNCHANGED <<pages, cur_page, cur_block, font_size, text_area, fs_text_area,
                   cur, log, result, failed_at, args, ret>>

\* the next record lacks a required attribute, or holds one that does not
\* parse: `.attr(..).unwrap()` or `.parse::<f32>().unwrap()` panics
MalformedRecord ==
    /\ pc = "build"
    /\ \E kind \in {"page", "block", "line", "word"} :
          /\ kind = "page" => cur_page = <<>>
          /\ kind = "block" => cur_page # <<>> /\ cur_block = <<>>
          /\ kind \in {"line", "word"} => cur_block # <<>>
          /\ Panic(kind)

\* `let font_size = get_font_sizes(&pages);` whose first statement calls
\* get_text_area, which calls left() on every page
GetFontSizes ==
    /\ pc = "font"
    /\ IF \E i \in 1..Len(pages) : ~HasLines(pages[i])
       THEN Panic("extent")
       ELSE /\ font_size' = get_font_sizes(pages)
            /\ fs_text_area' = get_text_area(pages)
            /\ pc' = "area"
            /\ UNCHANGED <<pages, cur_page, cur_block, text_area, cur, log,
                           result, failed_at, args, ret>>

\* `let text_area = get_text_area(&pages);`
GetTextArea ==
    /\ pc = "area"
    /\ IF \E i \in 1..Len(pages) : ~HasLines(pages[i])
       THEN Panic("extent")
       ELSE /\ text_area' = get_text_area(pages)
            /\ pc' = "classify"
            /\ UNCHANGED <<pages, cur_page, cur_block, font_size, fs_text_area,
                           cur, log, result, failed_at, args, ret>>

\* one iteration of the classification loop
ClassifyBlock ==
    /\ pc = "classify"
    /\ cur < Len(BlockIdxs(pages))
    /\ LET at == BlockIdxs(pages)[cur + 1]
           p == at[1]
           b == at[2]
       IN  /\ pages' = [pages EXCEPT ![p].blocks[b].attr =
                           get_block_attr(pages[p].blocks[b], font_size, text_area)]
           /\ log' = Append(log, at)
    /\ cur' = cur + 1
    /\ UNCHANGED <<pc, cur_page, cur_block, font_size, text_area, fs_text_area,
                   result, failed_at, args, ret>>

\* `return Ok(pages);`
Return ==
    /\ pc = "classify"
    /\ cur = Len(BlockIdxs(pages))
    /\ pc' = "done"
    /\ result' = "Ok"
    /\ UNCHANGED <<pages, cur_page, cur_block, font_size, text_area, fs_text_area,
                   cur, log, failed_at, args, ret>>

Init ==
    /\ pc = "build"
    /\ pages = <<>>
    /\ cur_page = <<>>
    /\ cur_block = <<>>
    \* locals not yet bound hold a placeholder until their `let`
    /\ font_size = 0
    /\ text_area = from_rect(0, 0, 0, 0)
    /\ fs_text_area = from_rect(0, 0, 0, 0)
    /\ cur = 0
    /\ log = <<>>
    /\ result = "none"
    /\ failed_at = "none"
    /\ args = <<>>
    /\ ret = <<>>

Next ==
    \/ BeginPage
    \/ BeginBlock
    \/ ParseLine
    \/ EndBlock
    \/ EndPage
    \/ EndInput
    \/ MalformedRecord
    \/ GetFontSizes
    \/ GetTextArea
    \/ ClassifyBlock
    \/ Return

Spec == Init /\ [][Next]_vars

(***************************************************************************)
(* The classification pass run again by a caller that holds the document   *)
(* parse_html returned, with the same two estimates.                       *)
(***************************************************************************)
\* the loop `for page in &mut pages { for block in &mut page.blocks {`
ClassifyPass(ps, fs, ta) ==
    [p \in 1..Len(ps) |->
        [ps[p] EXCEPT !.blocks =
            [b \in 1..Len(ps[p].blocks) |->
                [ps[p].blocks[b] EXCEPT !.attr = get_block_attr(ps[p].blocks[b], fs, ta)]]]]

Reclassify ==
    /\ pc = "done"
    /\ pages' = ClassifyPass(pages, font_size, text_area)
    /\ pc' = "reclassified"
    /\ UNCHANGED <<cur_page, cur_block, font_size, text_area, fs_text_area,
                   cur, log, result, failed_at, args, ret>>

NextReclassify == Next \/ Reclassify

SpecReclassify == Init /\ [][NextReclassify]_vars

(***************************************************************************)
(* The rectangle kernel called on its own: two rectangles built by the two *)
(* constructors, corners on 0..MaxCoord, inverted and degenerate ones      *)
(* included.                                                               *)
(***************************************************************************)
Grid == 0..MaxCoord

Rects ==
    {from_rect(x1, y1, x2, y2) : x1 \in Grid, y1 \in Grid, x2 \in Grid, y2 \in Grid}
    \cup {from_object(x, y, w, h) : x \in Grid, y \in Grid, w \in Grid, h \in Grid}

InitKernel ==
    /\ pc = "kernel"
    /\ args \in [a : Rects, b : Rects]
    /\ ret = <<>>
    /\ pages = <<>>
    /\ cur_page = <<>>
    /\ cur_block = <<>>
    /\ font_size = 0
    /\ text_area = from_rect(0, 0, 0, 0)
    /\ fs_text_area = from_rect(0, 0, 0, 0)
    /\ cur = 0
    /\ log = <<>>
    /\ result = "none"
    /\ failed_at = "none"

CallIsIntercept ==
    /\ pc = "kernel"
    /\ ret' = is_intercept(args.a, args.b)
    /\ pc' = "is_intercept"
    /\ UNCHANGED <<pages, cur_page, cur_block, font_size, text_area, fs_text_area,
                   cur, log, result, failed_at, args>>

CallIou ==
    /\ pc = "kernel"
    /\ ret' = iou(args.a, args.b)
    /\ pc' = "iou"
    /\ UNCHANGED <<pages, cur_page, cur_block, font_size, text_area, fs_text_area,
                   cur, log, result, failed_at, args>>

NextKernel == CallIsIntercept \/ CallIou

SpecKernel == InitKernel /\ [][NextKernel]_vars

(***************************************************************************)
(* The classifier called on its own: one block, a font size, a text area.  *)
(***************************************************************************)
\* block boxes: every box with corners on the grid, and two wide ones that
\* a text area covers to exactly nine tenths
ClassifierBoxes ==
    {Box(x1, y1, x2, y2) : x1 \in Grid, y1 \in Grid, x2 \in Grid, y2 \in Grid}
    \cup {Box(0, 0, 10, 1), Box(0, 0, 10, 2)}

LineHeights == {1, 2, 3}

FontSizes == {1, 2, NaN}

TextAreas == {from_rect(0, 0, 2, 2), from_rect(1, 0, 2, 2), from_rect(0, 0, 9, 2)}

\* a block as the builder makes it: Block::new, then its lines pushed
BuildBlock(b, hs) ==
    [Block_new(b.xmin, b.ymin, b.xmax - b.xmin, b.ymax - b.ymin) EXCEPT
        !.lines = [i \in 1..Len(hs) |-> Line_new(b.xmin, b.ymin, b.xmax - b.xmin, hs[i])]]

ClassifierBlocks ==
    {BuildBlock(b, hs) :
        b \in ClassifierBoxes,
        hs \in UNION {[1..n -> LineHeights] : n \in 0..MaxBlockLines}}

InitClassifier ==
    /\ pc = "classifier"
    /\ args \in [block : ClassifierBlocks, font_size : FontSizes, text_area : TextAreas]
    /\ ret = <<>>
    /\ pages = <<>>
    /\ cur_page = <<>>
    /\ cur_block = <<>>
    /\ font_size = 0
    /\ text_area = from_rect(0, 0, 0, 0)
    /\ fs_text_area = from_rect(0, 0, 0, 0)
    /\ cur = 0
    /\ log = <<>>
    /\ result = "none"
    /\ failed_at = "none"

CallGetBlockAttr ==
    /\ pc = "classifier"
    /\ ret' = get_block_attr(args.block, args.font_size, args.text_area)
    /\ pc' = "get_block_attr"
    /\ UNCHANGED <<pages, cur_page, cur_block, font_size, text_area, fs_text_area,
                   cur, log, result, failed_at, args>>

NextClassifier == CallGetBlockAttr

SpecClassifier == InitClassifier /\ [][NextClassifier]_vars

(***************************************************************************)
(* Properties.  The operators below restate what the specification says in *)
(* its own terms (sets, least and greatest elements, order statistics);    *)
(* none of them is used by the model above.                                *)
(***************************************************************************)
SetMin(S) == CHOOSE v \in S : \A w \in S : v <= w
SetMax(S) == CHOOSE v \in S : \A w \in S : v >= w

\* overlap extent of two rectangles on each axis
ExtentX(a, b) ==
    SetMin({a.bottom_right.x, b.bottom_right.x}) - SetMax({a.top_left.x, b.top_left.x})
ExtentY(a, b) ==
    SetMin({a.bottom_right.y, b.bottom_right.y}) - SetMax({a.top_left.y, b.top_left.y})

OwnArea(r) == (r.top_right.x - r.top_left.x) * (r.bottom_left.y - r.top_left.y)

WellFormed(r) == r.top_left.x < r.bottom_right.x /\ r.top_left.y < r.bottom_right.y

\* an object (x, y, width, height) lies in the text area: it overlaps it
\* (IoU > 0) and more than nine tenths of its own area is covered
InTextArea(o, ta) ==
    LET r  == from_rect(o.x, o.y, o.x + o.width, o.y + o.height)
        dx == ExtentX(r, ta)
        dy == ExtentY(r, ta)
    IN  /\ dx > 0
        /\ dy > 0
        /\ 10 * (dx * dy) > 9 * (o.width * o.height)

\* the k-th smallest value of a sequence
Kth(s, k) ==
    CHOOSE v \in {s[i] : i \in 1..Len(s)} :
        /\ Cardinality({i \in 1..Len(s) : s[i] < v}) < k
        /\ Cardinality({i \in 1..Len(s) : s[i] <= v}) >= k

\* twice the median of a non-empty sequence: the middle value counted twice
\* (odd count), the sum of the two middle values (even count)
TwiceMedian(s) ==
    LET n == Len(s)
    IN  IF n % 2 = 1 THEN 2 * Kth(s, (n + 1) \div 2)
        ELSE Kth(s, n \div 2) + Kth(s, (n \div 2) + 1)

\* the lines of one page, of the whole document
PageLineSet(page) ==
    UNION {{page.blocks[b].lines[l] : l \in 1..Len(page.blocks[b].lines)} :
              b \in 1..Len(page.blocks)}

(***************************************************************************)
(* C1.  get_block_attr returns Title exactly when the block is in the text *)
(* area, has exactly one line and its mean line height is strictly greater *)
(* than the font size; Text exactly when it is in the text area and has    *)
(* more than one line; Else in every other case.                           *)
(***************************************************************************)
C1_Expected ==
    LET b  == args.block
        fs == args.font_size
        inside == InTextArea(b, args.text_area)
    IN  IF inside /\ Len(b.lines) = 1 /\ fs # NaN /\ b.lines[1].height > fs
        THEN "Title"
        ELSE IF inside /\ Len(b.lines) > 1 THEN "Text"
        ELSE "Else"

\* C1: the attribute get_block_attr returned is the one the three-way rule gives
C1_BlockAttrDecision == pc = "get_block_attr" => ret = C1_Expected

\* a single-line block in the text area, taller than the font size
C1_Witness ==
    /\ pc = "get_block_attr"
    /\ ret = "Title"
    /\ Len(args.block.lines) = 1
    /\ InTextArea(args.block, args.text_area)

(***************************************************************************)
(* C2.  A record with a missing or unparsable numeric attribute makes      *)
(* parse_html return an error value (MalformedInput) to its caller.        *)
(***************************************************************************)
C2_MalformedIsReturnedAsError ==
    failed_at \in {"page", "block", "line", "word"} => result = "Err"

(***************************************************************************)
(* C3.  parse_html never calls top / bottom / left / right on a page with  *)
(* no lines, so a tree of well-formed records never makes it abort.        *)
(***************************************************************************)
C3_NoExtentOfEmptyPage == ~(result = "panic" /\ failed_at = "extent")

(***************************************************************************)
(* C4.  A block's attribute is Else until the classification loop assigns  *)
(* it; nothing is assigned before the tree is complete and both estimates  *)
(* are computed over the whole document; each block is assigned exactly    *)
(* once; get_font_sizes used the text area the classifier is given.        *)
(***************************************************************************)
C4_Unassigned(blocks, p) ==
    \A b \in 1..Len(blocks) :
        (\A i \in 1..Len(log) : log[i] # <<p, b>>) => blocks[b].attr = "Else"

\* C4: Else until assigned, assigned once, only after the tree and both estimates
C4_ClassifiedOnceAfterEstimates ==
    /\ \A p \in 1..Len(pages) : C4_Unassigned(pages[p].blocks, p)
    /\ \A i \in 1..Len(cur_page) : C4_Unassigned(cur_page[i].blocks, 0)
    /\ \A i \in 1..Len(cur_block) : cur_block[i].attr = "Else"
    /\ log # <<>> =>
          /\ pc \in {"classify", "done"}
          /\ cur_page = <<>> /\ cur_block = <<>>
          /\ font_size = get_font_sizes(pages)
          /\ text_area = get_text_area(pages)
          /\ fs_text_area = text_area
    /\ \A i \in 1..Len(log), j \in 1..Len(log) : log[i] = log[j] => i = j
    /\ pc = "done" =>
          \A p \in 1..Len(pages) : \A b \in 1..Len(pages[p].blocks) :
              \E i \in 1..Len(log) : log[i] = <<p, b>>

\* a finished run that classified two blocks, one of them a Title
C4_Witness ==
    /\ pc = "done"
    /\ Len(log) >= 2
    /\ \E p \in 1..Len(pages) : \E b \in 1..Len(pages[p].blocks) :
          pages[p].blocks[b].attr = "Title"

(***************************************************************************)
(* C5.  get_font_sizes returns the median of the heights of exactly those  *)
(* lines that lie in get_text_area of the same pages (IoU > 0 and covered  *)
(* fraction > 0.9); no other line contributes.  The median of an even      *)
(* count is the mean of the two middle values.                             *)
(***************************************************************************)
C5_QualifyingHeights ==
    LET ta == get_text_area(pages)
        Test(l) == InTextArea(l, ta)
        ls == SelectSeq(DocLines(pages), Test)
    IN  [i \in 1..Len(ls) |-> ls[i].height]

\* C5: the font size is the median height of the lines in the text area
C5_FontSizeIsMedianOfLinesInTextArea ==
    (pc = "area" /\ C5_QualifyingHeights # <<>>) =>
        2 * font_size = TwiceMedian(C5_QualifyingHeights)

\* a document with a line in the text area and a line that overlaps the
\* text area but is covered to nine tenths or less
C5_Witness ==
    /\ pc = "area"
    /\ C5_QualifyingHeights # <<>>
    /\ \E p \in 1..Len(pages) : \E l \in PageLineSet(pages[p]) :
          LET r == from_rect(l.x, l.y, l.x + l.width, l.y + l.height)
          IN  /\ ExtentX(r, get_text_area(pages)) > 0
              /\ ExtentY(r, get_text_area(pages)) > 0
              /\ ~InTextArea(l, get_text_area(pages))

(***************************************************************************)
(* C6.  For a non-empty list of pages that all have a line, get_text_area  *)
(* is the rectangle of four independent medians, across pages, of the      *)
(* per-page least line x, greatest line x + width, least line y and        *)
(* greatest line y + height, over all lines of all blocks of the page.     *)
(***************************************************************************)
C6_Lefts == [p \in 1..Len(pages) |-> SetMin({l.x : l \in PageLineSet(pages[p])})]
C6_Rights == [p \in 1..Len(pages) |-> SetMax({l.x + l.width : l \in PageLineSet(pages[p])})]
C6_Tops == [p \in 1..Len(pages) |-> SetMin({l.y : l \in PageLineSet(pages[p])})]
C6_Bottoms == [p \in 1..Len(pages) |-> SetMax({l.y + l.height : l \in PageLineSet(pages[p])})]

C7_InterceptIffPositiveExtentForAll ==
    pc = "is_intercept" =>
        /\ ret = is_intercept(args.b, args.a)
        /\ ret = (ExtentX(args.a, args.b) > 0 /\ ExtentY(args.a, args.b) > 0)

(***************************************************************************)
(* C7, amended.  is_intercept is symmetric for all rectangles; for two     *)
(* rectangles of strictly positive width and height it is true exactly     *)
(* when the overlap extent is strictly positive on both axes, so that two  *)
(* such rectangles sharing only an edge or a corner do not overlap and     *)
(* have iou 0.                                                             *)
(***************************************************************************)
C7_InterceptIffPositiveExtentWellFormed ==
    pc = "is_intercept" =>
        /\ ret = is_intercept(args.b, args.a)
        /\ (WellFormed(args.a) /\ WellFormed(args.b)) =>
              /\ ret = (ExtentX(args.a, args.b) > 0 /\ ExtentY(args.a, args.b) > 0)
              /\ ~ret => iou(args.a, args.b).num = 0

\* two well-formed rectangles that share only an edge
C7_Witness ==
    /\ pc = "is_intercept"
    /\ WellFormed(args.a) /\ WellFormed(args.b)
    /\ ExtentX(args.a, args.b) = 0
    /\ ExtentY(args.a, args.b) > 0
    /\ ret = FALSE

(***************************************************************************)
(* C8.  iou is symmetric and lies in [0, 1]; it is 0 when the overlap      *)
(* extent on either axis is <= 0, and otherwise the intersection area over *)
(* (area_a + area_b - intersection area), a strictly positive denominator. *)
(***************************************************************************)
C8_IouSymmetricBounded ==
    pc = "iou" =>
        LET dx == ExtentX(args.a, args.b)
            dy == ExtentY(args.a, args.b)
            back == iou(args.b, args.a)
        IN  /\ ret.num * back.den = back.num * ret.den
            /\ ret.den > 0
            /\ 0 <= ret.num /\ ret.num <= ret.den
            /\ (dx <= 0 \/ dy <= 0) => ret.num = 0
            /\ (dx > 0 /\ dy > 0) =>
                  /\ OwnArea(args.a) + OwnArea(args.b) - dx * dy > 0
                  /\ ret.num * (OwnArea(args.a) + OwnArea(args.b) - dx * dy)
                        = (dx * dy) * ret.den

\* two rectangles that overlap in part: an iou strictly between 0 and 1
C8_Witness ==
    /\ pc = "iou"
    /\ 0 < ret.num /\ ret.num < ret.den
    /\ args.a # args.b

(***************************************************************************)
(* C9.  As claimed: for every rectangle a, iou(a, a) = 1.                  *)
(***************************************************************************)
C9_IouSelfIsOneForAll ==
    (pc = "iou" /\ args.a = args.b) => (ret.den # 0 /\ ret.num = ret.den)

(***************************************************************************)
(* C9, amended.  For every rectangle a of strictly positive width and      *)
(* height, iou(a, a) = 1; for a degenerate or inverted a, iou(a, a) = 0.   *)
(***************************************************************************)
C9_IouSelfIsOneWellFormed ==
    (pc = "iou" /\ args.a = args.b) =>
        IF WellFormed(args.a)
        THEN ret.den # 0 /\ ret.num = ret.den
        ELSE ret.den # 0 /\ ret.num = 0

\* iou of a well-formed rectangle with itself
C9_Witness ==
    /\ pc = "iou"
    /\ args.a = args.b
    /\ WellFormed(args.a)
    /\ ret.num = ret.den

(***************************************************************************)
(* C10.  Running the classification pass again over a classified document, *)
(* with the same font size and text area, leaves the document as it was;   *)
(* the attribute a block gets does not depend on the one it has; and a     *)
(* pass changes nothing in the tree but the attr fields.                   *)
(***************************************************************************)
C10_StripAttr(ps) ==
    [p \in 1..Len(ps) |->
        [ps[p] EXCEPT !.blocks =
            [b \in 1..Len(ps[p].blocks) |-> [ps[p].blocks[b] EXCEPT !.attr = "Else"]]]]

\* C10: a second pass changes nothing, a pass changes attr fields only
C10_ClassificationIdempotent ==
    [][ /\ (pc = "done" /\ pc' = "reclassified") => pages' = pages
        /\ (pc = "classify" /\ pc' = "classify") =>
              /\ C10_StripAttr(pages') = C10_StripAttr(pages)
              /\ \A p \in 1..Len(pages) : \A b \in 1..Len(pages[p].blocks) :
                    \A a \in {"Title", "Text", "Else"} :
                        get_block_attr([pages[p].blocks[b] EXCEPT !.attr = a],
                                       font_size, text_area)
                          = get_block_attr(pages[p].blocks[b], font_size, text_area)
      ]_vars

\* a document classified twice that holds a Title and a Text block
C10_Witness ==
    /\ pc = "reclassified"
    /\ \E p \in 1..Len(pages) : \E b \in 1..Len(pages[p].blocks) :
          pages[p].blocks[b].attr = "Title"
    /\ \E p \in 1..Len(pages) : \E b \in 1..Len(pages[p].blocks) :
          pages[p].blocks[b].attr = "Text"

====
